---- MODULE Spec2Model ----
(***************************************************************************)
(* Shift roster viewer (src/app.py): the cell tokenizer, the assignment    *)
(* resolver, the shift-column list, and the page script that Streamlit     *)
(* re-runs top to bottom on every interaction.                             *)
(*                                                                         *)
(* Text is a sequence of one-character strings, so that letter case,       *)
(* substrings and delimiters are visible to the checks.                    *)
(***************************************************************************)
EXTENDS Integers, Sequences, FiniteSets, TLC

VARIABLES
    \* --- normalize_tokenize applied to one cell
    cell,        \* the raw cell value
    tokens,      \* normalize_tokenize(cell)
    rejoined,    \* normalize_tokenize("/".join(tokens))
    tpc,         \* "start" | "tokenized" | "rejoined"
    \* --- get_assignment_for_person applied to one row
    row,         \* mapping column name -> cell (a column may be absent)
    person,      \* the person identifier looked for
    shift_cols,  \* the ordered list of shift columns to check
    label,       \* get_assignment_for_person(row, person, shift_cols)
    rpc,         \* "start" | "done"
    \* --- build_shift_columns applied to one table header
    sheet_columns, \* df.columns, in spreadsheet order
    built,         \* build_shift_columns(df)
    cpc,           \* "start" | "done"
    \* --- the page script, run top to bottom on every interaction
    repo_files,  \* the .xlsx files of the repository (never written)
    uploaded_ok, \* history: the table of the last successful upload
    out          \* what the last run of the script rendered

tokVars == <<cell, tokens, rejoined, tpc>>
resVars == <<row, person, shift_cols, label, rpc>>
colVars == <<sheet_columns, built, cpc>>
appVars == <<repo_files, uploaded_ok, out>>
vars == <<tokVars, resVars, colVars, appVars>>

(***************************************************************************)
(* Bounds of the model                                                     *)
(***************************************************************************)
MaxCellLen == 4
MaxShiftCols == 2
MaxCols == 5
MaxRows == 2

(***************************************************************************)
(* Helpers                                                                 *)
(***************************************************************************)
SeqsUpTo(S, n) == UNION {[1..k -> S] : k \in 0..n}

Range(s) == {s[i] : i \in 1..Len(s)}

NoRepeat(s) == \A i, j \in 1..Len(s) : i # j => s[i] # s[j]

(***************************************************************************)
(* Characters and cells                                                    *)
(***************************************************************************)
UpperLetters ==
    {"A","B","C","D","E","F","G","H","I","J","K","L","M",
     "N","O","P","Q","R","S","T","U","V","W","X","Y","Z"}

LowerLetters ==
    {"a","b","c","d","e","f","g","h","i","j","k","l","m",
     "n","o","p","q","r","s","t","u","v","w","x","y","z"}

\* the complement of the regex class [^A-Za-z]
IsAlpha(c) == c \in UpperLetters \cup LowerLetters

\* A cell is what pandas hands over: a missing value (NaN / None), or a value
\* whose str() is the text.  text of a missing value is what str() would give
\* if the code ever reached it.
NaN == [isna |-> TRUE, text |-> <<"n","a","n">>]
None == [isna |-> TRUE, text |-> <<"N","o","n","e">>]
Text(s) == [isna |-> FALSE, text |-> s]

isna(c) == c.isna
str(c) == c.text

(***************************************************************************)
(* normalize_tokenize                                                      *)
(***************************************************************************)
RECURSIVE SkipNonAlpha(_)
SkipNonAlpha(s) ==
    IF s = <<>> \/ IsAlpha(Head(s)) THEN s ELSE SkipNonAlpha(Tail(s))

\* the pattern r"[^A-Za-z0-9]+" instead: digits stay inside tokens
RECURSIVE SkipNonAlnum(_)
SkipNonAlnum(s) ==
    IF s = <<>> \/ IsAlpha(Head(s)) \/ Head(s) \in {"0","1","2","3","4","5","6","7","8","9"}
    THEN s ELSE SkipNonAlnum(Tail(s))

RECURSIVE re_sub_alnum(_)
re_sub_alnum(s) ==
    IF s = <<>> THEN <<>>
    ELSE IF IsAlpha(Head(s)) \/ Head(s) \in {"0","1","2","3","4","5","6","7","8","9"}
         THEN <<Head(s)>> \o re_sub_alnum(Tail(s))
    ELSE <<"/">> \o re_sub_alnum(SkipNonAlnum(Tail(s)))

\* the pattern r"[^A-Z]+" instead: lowercase letters become delimiters
RECURSIVE SkipNonUpper(_)
SkipNonUpper(s) ==
    IF s = <<>> \/ Head(s) \in UpperLetters THEN s ELSE SkipNonUpper(Tail(s))

RECURSIVE re_sub_upper(_)
re_sub_upper(s) ==
    IF s = <<>> THEN <<>>
    ELSE IF Head(s) \in UpperLetters THEN <<Head(s)>> \o re_sub_upper(Tail(s))
    ELSE <<"/">> \o re_sub_upper(SkipNonUpper(Tail(s)))

\* re.sub(r"[^A-Za-z]+", "/", s): every maximal run of characters outside
\* A-Z, a-z becomes one "/"
RECURSIVE re_sub(_)
re_sub(s) ==
    IF s = <<>> THEN <<>>
    ELSE IF IsAlpha(Head(s)) THEN <<Head(s)>> \o re_sub(Tail(s))
    ELSE <<"/">> \o re_sub(SkipNonAlpha(Tail(s)))

\* list(s) instead of s.split(sep): one fragment per character
chars_of(s, sep) == [i \in 1..Len(s) |-> <<s[i]>>]

\* s.split(sep): the fragments between separators, empty ones included
RECURSIVE split(_, _)
split(s, sep) ==
    IF \A i \in 1..Len(s) : s[i] # sep THEN <<s>>
    ELSE LET i == CHOOSE k \in 1..Len(s) :
                      s[k] = sep /\ \A j \in 1..(k - 1) : s[j] # sep
         IN <<SubSeq(s, 1, i - 1)>> \o split(SubSeq(s, i + 1, Len(s)), sep)

NonEmpty(t) == t # <<>>

normalize_tokenize(c) ==
    IF isna(c) THEN <<>>
    ELSE SelectSeq(split(re_sub(str(c)), "/"), NonEmpty)

\* sep.join(toks)
RECURSIVE join(_, _)
join(sep, toks) ==
    IF toks = <<>> THEN <<>>
    ELSE IF Len(toks) = 1 THEN Head(toks)
    ELSE Head(toks) \o <<sep>> \o join(sep, Tail(toks))

(***************************************************************************)
(* get_assignment_for_person                                               *)
(***************************************************************************)
KNOWN_SHIFT_COLS == <<"1st", "2nd", "3rd", "General", "LW/NI">>

VB == <<"V", "B">>
RR == <<"R", "R">>
ST == <<"S", "T">>
SRB == <<"S", "R", "B">>
AH == <<"A", "H">>

KNOWN_PEOPLE == <<VB, RR, ST, SRB, AH>>

\* the pictograph of each icon is written as a word in brackets
ICONS ==
    [c \in {"1st", "2nd", "3rd", "General", "LW/NI"} |->
        CASE c = "1st" -> "(sunrise) | MORNING"
          [] c = "2nd" -> "(sun) | EVENING"
          [] c = "3rd" -> "(moon) | NIGHT"
          [] c = "General" -> "(office) | GENERAL"
          [] c = "LW/NI" -> "(walking) | LW"]

ICONS_get(col, default) == IF col \in DOMAIN ICONS THEN ICONS[col] ELSE default

\* f"{ICONS.get(col, '')} {col} Shift"
ShiftLabel(col) == ICONS_get(col, "") \o " " \o col \o " Shift"

OFF_LEAVE == "(stop) Off / Leave"
NO_ASSIGNMENT == "(dash) No Assignment"

\* row.get(col, default)
row_get(r, col, default) == IF col \in DOMAIN r THEN r[col] ELSE default

\* any(person in t for t in toks): the identifier as a substring of a token
token_in_substring(p, toks) ==
    \E i \in 1..Len(toks) :
        \E k \in 1..Len(toks[i]) :
            /\ k + Len(p) - 1 <= Len(toks[i])
            /\ SubSeq(toks[i], k, k + Len(p) - 1) = p

\* person in tokens
token_in(p, toks) == \E i \in 1..Len(toks) : toks[i] = p

\* the shift loop: the index in cols of the first column whose tokens hold
\* the person, 0 when the loop ends without a return
RECURSIVE first_shift_hit(_, _, _, _)
first_shift_hit(r, p, cols, i) ==
    IF i > Len(cols) THEN 0
    ELSE IF token_in(p, normalize_tokenize(row_get(r, cols[i], None))) THEN i
    ELSE first_shift_hit(r, p, cols, i + 1)

\* ["Off"] instead of ["Off", "Leave"]
off_only == <<"Off">>

\* for col in ["Off", "Leave"]
off_leave_cols == <<"Off", "Leave">>

\* the body of the Off/Leave loop with "if tokens:" for "if person in tokens:"
off_hit_any(r, p, col) ==
    /\ col \in DOMAIN r
    /\ normalize_tokenize(r[col]) # <<>>

\* the body of the Off/Leave loop for one column
off_hit(r, p, col) ==
    /\ col \in DOMAIN r
    /\ token_in(p, normalize_tokenize(r[col]))

\* the Off/Leave loop placed before the shift loop
get_assignment_off_first(r, p, cols) ==
    IF \E k \in 1..Len(off_leave_cols) : off_hit(r, p, off_leave_cols[k])
    THEN OFF_LEAVE
    ELSE LET hit == first_shift_hit(r, p, cols, 1)
         IN IF hit # 0 THEN ShiftLabel(cols[hit]) ELSE NO_ASSIGNMENT

get_assignment_for_person(r, p, cols) ==
    LET hit == first_shift_hit(r, p, cols, 1)
    IN IF hit # 0 THEN ShiftLabel(cols[hit])
       ELSE IF \E k \in 1..Len(off_leave_cols) : off_hit(r, p, off_leave_cols[k])
       THEN OFF_LEAVE
       ELSE NO_ASSIGNMENT

(***************************************************************************)
(* Tables, load_roster_from_bytes, load_roster_from_repo                   *)
(***************************************************************************)
\* a value of the date column: a timestamp (calendar day, time of day; time
\* of day 0 is midnight), a cell that does not parse as a date, or NaT.
\* Day 0 is a Monday.
Timestamp(d, t) == [nat |-> FALSE, bad |-> FALSE, day |-> d, tod |-> t]
BadDate == [nat |-> FALSE, bad |-> TRUE, day |-> 0, tod |-> 0]
NaT == [nat |-> TRUE, bad |-> FALSE, day |-> 0, tod |-> 0]

\* pd.to_datetime(x, errors="coerce"): the time of day is kept
to_datetime_coerce(v) == IF v.bad THEN NaT ELSE v

\* pd.to_datetime(a date): midnight of that day
to_datetime(day) == Timestamp(day, 0)

\* ts + timedelta(days=n)
add_days(ts, n) == Timestamp(ts.day + n, ts.tod)

\* comparison of two timestamps
ts_le(a, b) == a.day < b.day \/ (a.day = b.day /\ a.tod <= b.tod)

\* a table: its column names in spreadsheet order and its rows, each row a
\* mapping column name -> value; df is None when isnone
DataFrame(cols, rws) == [isnone |-> FALSE, columns |-> cols, rows |-> rws]
NoDf == [isnone |-> TRUE, columns |-> <<>>, rows |-> <<>>]

\* str(c).strip().upper().startswith("DATE"), for the column names of the model
IsDateCol(c) == c \in {"Date", "DATE", "Date of duty"}

\* next(c for c in sheet.columns if ...)
RECURSIVE first_date_col(_)
first_date_col(cols) ==
    IF IsDateCol(Head(cols)) THEN Head(cols) ELSE first_date_col(Tail(cols))

\* the sheet with its date column parsed and the rows without a date dropped
load_sheet(sheet) ==
    LET dc == first_date_col(sheet.columns)
        parsed == [i \in 1..Len(sheet.rows) |->
                      [sheet.rows[i] EXCEPT ![dc] = to_datetime_coerce(@)]]
        notna(r) == ~r[dc].nat
    IN [ok |-> TRUE,
        df |-> DataFrame(sheet.columns, SelectSeq(parsed, notna)),
        date_col |-> dc]

ValueError == [ok |-> FALSE, df |-> NoDf, date_col |-> ""]

\* load_roster_from_bytes: the first sheet that has a DATE column; data is
\* the workbook, a sequence of sheets
RECURSIVE load_roster_from_bytes(_)
load_roster_from_bytes(data) ==
    IF data = <<>> THEN ValueError
    ELSE IF \E c \in Range(Head(data).columns) : IsDateCol(c)
         THEN load_sheet(Head(data))
    ELSE load_roster_from_bytes(Tail(data))

\* load_roster_from_repo: the most recently modified .xlsx file, if any
load_roster_from_repo(files) ==
    IF files = {} THEN [ok |-> TRUE, df |-> NoDf, date_col |-> "", filename |-> ""]
    ELSE LET path == CHOOSE f \in files : \A g \in files : g.mtime <= f.mtime
             got == load_roster_from_bytes(path.data)
         IN [ok |-> got.ok, df |-> got.df, date_col |-> got.date_col,
             filename |-> path.name]

(***************************************************************************)
(* build_shift_columns, render_assignment_for_dates, the weekly table      *)
(***************************************************************************)
\* [c for c in df.columns if c in KNOWN_SHIFT_COLS]: the spreadsheet's order
build_shift_columns_sheet_order(df) ==
    LET known(c) == c \in Range(KNOWN_SHIFT_COLS)
    IN SelectSeq(df.columns, known)

build_shift_columns(df) ==
    LET present(c) == c \in Range(df.columns)
    IN SelectSeq(KNOWN_SHIFT_COLS, present)

\* df[df[date_col] == d]
rows_on(df, date_col, d) ==
    LET same(r) == r[date_col] = d
    IN SelectSeq(df.rows, same)

NO_DATA == "No data"

\* label(rowset) of render_assignment_for_dates
render_label(rowset, p, cols) ==
    IF rowset = <<>> THEN NO_DATA
    ELSE get_assignment_for_person(rowset[1], p, cols)

\* the rows label(rowset) hands to get_assignment_for_person
render_call(rowset) == IF rowset = <<>> THEN <<>> ELSE <<rowset[1]>>

\* (d1, label today, d2, label tomorrow); the dates are rendered as days
render_assignment_for_dates(df, date_col, p, base_date, cols) ==
    LET d1 == to_datetime(base_date)
        d2 == add_days(d1, 1)
        rows_today == rows_on(df, date_col, d1)
        rows_tom == rows_on(df, date_col, d2)
    IN [d1 |-> d1.day, a1 |-> render_label(rows_today, p, cols),
        d2 |-> d2.day, a2 |-> render_label(rows_tom, p, cols),
        calls |-> render_call(rows_today) \o render_call(rows_tom)]

\* sel.weekday(), Monday = 0
weekday(ts) == ts.day % 7

Restrict(r, cols) == [c \in (DOMAIN r) \cap cols |-> r[c]]

\* the rows of the week of the selected date, Monday 00:00 to Sunday 00:00,
\* each with its assignment, before sorting
week_rows(df, date_col, p, selected_date, cols) ==
    LET sel == to_datetime(selected_date)
        monday == Timestamp(sel.day - weekday(sel), 0)
        sunday == add_days(monday, 6)
        inweek(r) == ts_le(monday, r[date_col]) /\ ts_le(r[date_col], sunday)
        kept == {date_col} \cup Range(cols)
                    \cup ({"Off", "Leave"} \cap Range(df.columns))
        week == SelectSeq(df.rows, inweek)
    IN [i \in 1..Len(week) |->
           [Date |-> week[i][date_col],
            Assignment |-> get_assignment_for_person(Restrict(week[i], kept), p, cols)]]

\* sort_values("Date"): the orders a sort by date may produce (rows with
\* equal dates in either order)
sorted_by_date(week) ==
    {[i \in 1..Len(week) |-> week[perm[i]]] :
        perm \in {q \in [1..Len(week) -> 1..Len(week)] :
                     /\ \A i, j \in 1..Len(week) : i # j => q[i] # q[j]
                     /\ \A i \in 1..(Len(week) - 1) :
                           ts_le(week[q[i]].Date, week[q[i + 1]].Date)}}

(***************************************************************************)
(* Inputs of the specifications                                            *)
(***************************************************************************)
TokChars == {"S", "T", "X", "s", "t", "/", "-", "1"}

TokCells == {NaN, None} \cup {Text(s) : s \in SeqsUpTo(TokChars, MaxCellLen)}

\* rows of the resolver: any subset of these columns, each holding one of
\* these cells; "Extra" is a shift column without an icon
ResShiftCols == {"1st", "2nd", "Extra"}
ResCols == ResShiftCols \cup {"Off", "Leave"}
ResCells ==
    {NaN, Text(<<"V","B","/","S","T">>), Text(<<"s","t","-","S","T","X">>)}
ResRows == UNION {[D -> ResCells] : D \in SUBSET ResCols}
ResShiftLists == {s \in SeqsUpTo(ResShiftCols, MaxShiftCols) : NoRepeat(s)}

\* table headers for build_shift_columns: the known shift columns and three
\* others, in any order
ColNames == Range(KNOWN_SHIFT_COLS) \cup {"Date", "Off", "Notes"}
ColLists == {s \in SeqsUpTo(ColNames, MaxCols) : NoRepeat(s)}

\* rosters of the page script.  Days 6, 7, 8 are a Sunday, a Monday and a
\* Tuesday; time of day 1 is any time after midnight.
AppColumns == <<"Date", "2nd", "1st", "Off">>
AppDays == {6, 7, 8}
AppDates == {Timestamp(d, t) : d \in AppDays, t \in {0, 1}}

RowA(date) ==
    [c \in Range(AppColumns) |->
        CASE c = "Date" -> date
          [] c = "1st" -> Text(<<"S","T","/","V","B">>)
          [] c = "2nd" -> NaN
          [] c = "Off" -> Text(<<"R","R">>)]

RowB(date) ==
    [c \in Range(AppColumns) |->
        CASE c = "Date" -> date
          [] c = "1st" -> NaN
          [] c = "2nd" -> Text(<<"S","T">>)
          [] c = "Off" -> Text(<<"V","B"," ","A","H">>)]

AppRows == {RowA(d) : d \in AppDates} \cup {RowB(d) : d \in AppDates}

\* a roster of the repository has at least one dated row: the sidebar's date
\* input is built from the smallest and the largest date of the table
AppSheets ==
    {[columns |-> AppColumns, rows |-> rs] :
        rs \in SeqsUpTo(AppRows, MaxRows) \ {<<>>}}

NotesSheet ==
    [columns |-> <<"Notes">>, rows |-> << [c \in {"Notes"} |-> Text(<<"S","T">>)] >>]

OldFile ==
    [name |-> "old.xlsx", mtime |-> 1,
     data |-> <<NotesSheet, [columns |-> AppColumns, rows |-> <<RowB(Timestamp(7, 0))>>]>>]

RepoFile(sheet) == [name |-> "roster.xlsx", mtime |-> 2, data |-> <<sheet>>]

RepoChoices ==
    {{}} \cup {{RepoFile(sh)} : sh \in AppSheets}
         \cup {{RepoFile(sh), OldFile} : sh \in {x \in AppSheets : Len(x.rows) = 1}}

UploadRow(date, first, leave) ==
    [c \in {"DATE", "1st", "Leave"} |->
        CASE c = "DATE" -> date [] c = "1st" -> first [] c = "Leave" -> leave]

NewFile ==
    [name |-> "new.xlsx",
     data |-> <<NotesSheet,
                [columns |-> <<"DATE", "1st", "Leave">>,
                 rows |-> <<UploadRow(Timestamp(7, 0), Text(<<"A","H">>),
                                      Text(<<"S","T",",","V","B">>)),
                            UploadRow(BadDate, Text(<<"S","T">>), NaN),
                            UploadRow(Timestamp(8, 0), Text(<<"S","T">>), NaN)>>]>>]

BadFile == [name |-> "bad.xlsx", data |-> <<NotesSheet>>]

UploadFiles == {NewFile, BadFile}

TokIdle ==
    /\ cell = NaN
    /\ tokens = <<>>
    /\ rejoined = <<>>
    /\ tpc = "idle"

ResIdle ==
    /\ row = <<>>
    /\ person = <<>>
    /\ shift_cols = <<>>
    /\ label = ""
    /\ rpc = "idle"

ColIdle ==
    /\ sheet_columns = <<>>
    /\ built = <<>>
    /\ cpc = "idle"

Rendered(pg, kd, L, p, sd, cols, res, cl) ==
    [page |-> pg, kind |-> kd, filename |-> L.filename, df |-> L.df,
     person |-> p, selected_date |-> sd, shift_cols |-> cols,
     result |-> res, calls |-> cl]

NothingRendered ==
    [page |-> "", kind |-> "", filename |-> "", df |-> NoDf,
     person |-> <<>>, selected_date |-> 0, shift_cols |-> <<>>,
     result |-> <<>>, calls |-> <<>>]

AppIdle ==
    /\ repo_files = {}
    /\ uploaded_ok = NoDf
    /\ out = NothingRendered

(***************************************************************************)
(* Specification of the tokenizer: a cell is drawn, tokenized, and the     *)
(* tokens are joined with "/" and tokenized again.                         *)
(***************************************************************************)
TokInit ==
    /\ cell \in TokCells
    /\ tokens = <<>>
    /\ rejoined = <<>>
    /\ tpc = "start"
    /\ ResIdle /\ ColIdle /\ AppIdle

Tokenize ==
    /\ tpc = "start"
    /\ tokens' = normalize_tokenize(cell)
    /\ tpc' = "tokenized"
    /\ UNCHANGED <<cell, rejoined, resVars, colVars, appVars>>

Rejoin ==
    /\ tpc = "tokenized"
    /\ rejoined' = normalize_tokenize(Text(join("/", tokens)))
    /\ tpc' = "rejoined"
    /\ UNCHANGED <<cell, tokens, resVars, colVars, appVars>>

NextTok == Tokenize \/ Rejoin

SpecTok == TokInit /\ [][NextTok]_vars

(***************************************************************************)
(* Specification of the resolver: a row, a person and a list of shift      *)
(* columns are drawn and resolved.                                         *)
(***************************************************************************)
ResInit ==
    /\ row \in ResRows
    /\ person \in Range(KNOWN_PEOPLE)
    /\ shift_cols \in ResShiftLists
    /\ label = ""
    /\ rpc = "start"
    /\ TokIdle /\ ColIdle /\ AppIdle

Resolve ==
    /\ rpc = "start"
    /\ label' = get_assignment_for_person(row, person, shift_cols)
    /\ rpc' = "done"
    /\ UNCHANGED <<row, person, shift_cols, tokVars, colVars, appVars>>

NextRes == Resolve

SpecRes == ResInit /\ [][NextRes]_vars

(***************************************************************************)
(* Specification of the shift-column list: a table header is drawn and     *)
(* build_shift_columns is applied to the table.                            *)
(***************************************************************************)
ColInit ==
    /\ sheet_columns \in ColLists
    /\ built = <<>>
    /\ cpc = "start"
    /\ TokIdle /\ ResIdle /\ AppIdle

BuildShiftColumns ==
    /\ cpc = "start"
    /\ built' = build_shift_columns(DataFrame(sheet_columns, <<>>))
    /\ cpc' = "done"
    /\ UNCHANGED <<sheet_columns, tokVars, resVars, appVars>>

NextCols == BuildShiftColumns

SpecCols == ColInit /\ [][NextCols]_vars

(***************************************************************************)
(* Specification of the page script.  Every interaction runs the script    *)
(* from its first line: the roster is loaded from the repository, the      *)
(* sidebar is drawn, and the selected page is rendered.  Script variables  *)
(* (df, date_col, filename, uploaded, shift_cols) do not outlive a run.    *)
(***************************************************************************)
AppInit ==
    /\ repo_files \in RepoChoices
    /\ uploaded_ok = NoDf
    /\ out = NothingRendered
    /\ TokIdle /\ ResIdle /\ ColIdle

\* the days the date input offers: date_min .. date_max
date_range(df, date_col) ==
    LET days == {df.rows[i][date_col].day : i \in 1..Len(df.rows)}
    IN {d \in 0..9 : (\E x \in days : x <= d) /\ (\E y \in days : d <= y)}

Crashed(pg, L) ==
    Rendered(pg, "error", L, <<>>, 0, <<>>, <<>>, <<>>)

\* page "Today & Tomorrow"
RunToday ==
    LET L == load_roster_from_repo(repo_files)
    IN /\ IF ~L.ok THEN out' = Crashed("today", L)
          ELSE IF L.df.isnone
          THEN out' = Rendered("today", "info", L, <<>>, 0, <<>>, <<>>, <<>>)
          ELSE \E p \in Range(KNOWN_PEOPLE), sd \in date_range(L.df, L.date_col) :
                  LET cols == build_shift_columns(L.df)
                      r == render_assignment_for_dates(L.df, L.date_col, p, sd, cols)
                  IN out' = Rendered("today", "rendered", L, p, sd, cols,
                                     <<r.d1, r.a1, r.d2, r.a2>>, r.calls)
       /\ UNCHANGED <<repo_files, uploaded_ok, tokVars, resVars, colVars>>

\* page "Weekly View"
RunWeekly ==
    LET L == load_roster_from_repo(repo_files)
    IN /\ IF ~L.ok THEN out' = Crashed("weekly", L)
          ELSE IF L.df.isnone
          THEN out' = Rendered("weekly", "info", L, <<>>, 0, <<>>, <<>>, <<>>)
          ELSE \E p \in Range(KNOWN_PEOPLE), sd \in date_range(L.df, L.date_col) :
                  LET cols == build_shift_columns(L.df)
                      week == week_rows(L.df, L.date_col, p, sd, cols)
                  IN \E sorted \in sorted_by_date(week) :
                        out' = Rendered("weekly", "rendered", L, p, sd, cols,
                                        sorted, <<>>)
       /\ UNCHANGED <<repo_files, uploaded_ok, tokVars, resVars, colVars>>

\* page "Upload Roster", with a file in the uploader: df, date_col and
\* filename are rebound on the last lines of the run
RunUpload ==
    LET L == load_roster_from_repo(repo_files)
    IN IF ~L.ok
       THEN /\ out' = Crashed("upload", L)
            /\ UNCHANGED <<repo_files, uploaded_ok, tokVars, resVars, colVars>>
       ELSE \E uploaded \in UploadFiles :
               LET got == load_roster_from_bytes(uploaded.data)
                   U == [ok |-> got.ok, df |-> got.df, date_col |-> got.date_col,
                         filename |-> uploaded.name]
               IN /\ out' = IF got.ok
                            THEN Rendered("upload", "success", U, <<>>, 0, <<>>, <<>>, <<>>)
                            ELSE Crashed("upload", L)
                  /\ uploaded_ok' = IF got.ok THEN got.df ELSE uploaded_ok
                  /\ UNCHANGED <<repo_files, tokVars, resVars, colVars>>

\* page "Upload Roster", with the uploader empty
RunUploadPage ==
    LET L == load_roster_from_repo(repo_files)
    IN /\ out' = IF ~L.ok THEN Crashed("upload", L)
                 ELSE Rendered("upload", "waiting", L, <<>>, 0, <<>>, <<>>, <<>>)
       /\ UNCHANGED <<repo_files, uploaded_ok, tokVars, resVars, colVars>>

NextApp == RunToday \/ RunWeekly \/ RunUpload \/ RunUploadPage

SpecApp == AppInit /\ [][NextApp]_vars

(***************************************************************************)
(* Properties of normalize_tokenize, checked under SpecTok                 *)
(***************************************************************************)
RECURSIVE Flatten(_)
Flatten(toks) == IF toks = <<>> THEN <<>> ELSE Head(toks) \o Flatten(Tail(toks))

HasLower(s) == \E i \in 1..Len(s) : s[i] \in LowerLetters

\* the maximal runs of alphabetic characters of a text, left to right
RunStarts(s) ==
    {i \in 1..Len(s) : IsAlpha(s[i]) /\ (i = 1 \/ ~IsAlpha(s[i - 1]))}

RunEnd(s, i) ==
    CHOOSE j \in i..Len(s) :
        /\ \A k \in i..j : IsAlpha(s[k])
        /\ (j = Len(s) \/ ~IsAlpha(s[j + 1]))

KthRunStart(s, k) ==
    CHOOSE i \in RunStarts(s) : Cardinality({x \in RunStarts(s) : x <= i}) = k

MaximalRuns(s) ==
    [k \in 1..Cardinality(RunStarts(s)) |->
        SubSeq(s, KthRunStart(s, k), RunEnd(s, KthRunStart(s, k)))]

\* C4 as stated: every token returned by normalize_tokenize consists only of
\* uppercase letters, whatever the cell.
C4_AllTokensUppercase ==
    tpc = "tokenized" =>
        \A i \in 1..Len(tokens) :
            \A k \in 1..Len(tokens[i]) : tokens[i][k] \in UpperLetters

\* C4 amended: every token is a non-empty sequence of letters A-Z, a-z, and
\* the tokens keep the letters of the cell in the case the cell has them
\* (the letters of the tokens, read in order, are the letters of the cell).
C4_TokensAlphabeticCasePreserved ==
    tpc = "tokenized" =>
        /\ \A i \in 1..Len(tokens) :
              /\ tokens[i] # <<>>
              /\ \A k \in 1..Len(tokens[i]) : IsAlpha(tokens[i][k])
        /\ ~isna(cell) => Flatten(tokens) = SelectSeq(str(cell), IsAlpha)

C4_Witness ==
    /\ tpc = "tokenized"
    /\ ~isna(cell)
    /\ HasLower(str(cell))
    /\ \E i \in 1..Len(tokens) : HasLower(tokens[i])

\* C5: the tokens are exactly the maximal runs of alphabetic characters of
\* the cell, left to right, every run of other characters being one
\* delimiter; no token is empty; a cell that is missing, empty or without
\* alphabetic characters gives the empty sequence.
C5_TokensAreMaximalRuns ==
    tpc = "tokenized" =>
        /\ isna(cell) => tokens = <<>>
        /\ ~isna(cell) => tokens = MaximalRuns(str(cell))
        /\ \A i \in 1..Len(tokens) : tokens[i] # <<>>
        /\ (~isna(cell) /\ \A i \in 1..Len(str(cell)) : ~IsAlpha(str(cell)[i]))
              => tokens = <<>>

C5_Witness ==
    /\ tpc = "tokenized"
    /\ ~isna(cell)
    /\ Len(tokens) = 2
    /\ \E i \in 1..(Len(str(cell)) - 1) :
          ~IsAlpha(str(cell)[i]) /\ ~IsAlpha(str(cell)[i + 1])

\* C7: joining the tokens of a cell with "/" and tokenizing the joined text
\* gives the same tokens in the same order.
C7_RejoinRoundTrip ==
    tpc = "rejoined" => rejoined = tokens

C7_Witness ==
    /\ tpc = "rejoined"
    /\ ~isna(cell)
    /\ Len(tokens) >= 2
    /\ str(cell) # join("/", tokens)
    /\ rejoined = tokens

(***************************************************************************)
(* Properties of get_assignment_for_person, checked under SpecRes          *)
(***************************************************************************)
\* the person is among the tokens of column col of the row
InColumn(col) ==
    col \in DOMAIN row /\ person \in Range(normalize_tokenize(row[col]))

\* the text holds the identifier as a whole alphabetic word, letter for letter
WholeWordIn(p, s) ==
    \E i \in 1..Len(s) :
        /\ i + Len(p) - 1 <= Len(s)
        /\ \A k \in 1..Len(p) : s[i + k - 1] = p[k]
        /\ (i = 1 \/ ~IsAlpha(s[i - 1]))
        /\ (i + Len(p) - 1 = Len(s) \/ ~IsAlpha(s[i + Len(p)]))

Upper(c) ==
    CASE c = "s" -> "S" [] c = "t" -> "T" [] c = "x" -> "X"
      [] c = "v" -> "V" [] c = "b" -> "B" [] OTHER -> c

\* the text holds the identifier only inside a longer word, or only in
\* another letter case
NearMissIn(p, s) ==
    /\ ~WholeWordIn(p, s)
    /\ \E i \in 1..Len(s) :
          /\ i + Len(p) - 1 <= Len(s)
          /\ \A k \in 1..Len(p) : Upper(s[i + k - 1]) = p[k]

\* C1: when the person is among the tokens of shift column C and C is the
\* earliest such column of shift_cols, the result is C's shift label, also
\* when the person is in a later shift column or in Off or in Leave.
C1_PriorityPrecedence ==
    rpc = "done" =>
        \A i \in 1..Len(shift_cols) :
            ((InColumn(shift_cols[i]) /\ \A j \in 1..(i - 1) : ~InColumn(shift_cols[j]))
                => label = ShiftLabel(shift_cols[i]))

C1_Witness ==
    /\ rpc = "done"
    /\ Len(shift_cols) = 2
    /\ ~InColumn(shift_cols[1])
    /\ InColumn(shift_cols[2])
    /\ InColumn("Off")
    /\ InColumn("Leave")
    /\ label = ShiftLabel(shift_cols[2])

\* C2: when the person is among the tokens of no column of shift_cols but
\* among the tokens of the row's Off column or of its Leave column, the
\* result is the Off / Leave label.
C2_OffLeaveFallback ==
    rpc = "done" =>
        ((/\ \A i \in 1..Len(shift_cols) : ~InColumn(shift_cols[i])
          /\ (InColumn("Off") \/ InColumn("Leave")))
            => label = OFF_LEAVE)

C2_Witness ==
    /\ rpc = "done"
    /\ shift_cols # <<>>
    /\ \A i \in 1..Len(shift_cols) : ~InColumn(shift_cols[i])
    /\ ~InColumn("Off")
    /\ InColumn("Leave")
    /\ label = OFF_LEAVE

\* C3: when the person is among the tokens of no column of shift_cols and of
\* neither Off nor Leave (columns absent from the row included), the result
\* is No Assignment.
C3_DefaultNoAssignment ==
    rpc = "done" =>
        ((/\ \A i \in 1..Len(shift_cols) : ~InColumn(shift_cols[i])
          /\ ~InColumn("Off")
          /\ ~InColumn("Leave"))
            => label = NO_ASSIGNMENT)

C3_Witness ==
    /\ rpc = "done"
    /\ \E i \in 1..Len(shift_cols) : shift_cols[i] \notin DOMAIN row
    /\ "Leave" \notin DOMAIN row
    /\ "Off" \in DOMAIN row
    /\ normalize_tokenize(row["Off"]) # <<>>
    /\ label = NO_ASSIGNMENT

\* C6: a shift label for column C is returned only if the text of C's cell
\* holds the identifier as a whole alphabetic word in the same letter case,
\* and the Off / Leave label only if the Off or the Leave cell does; a cell
\* that holds the identifier only inside a longer word or in another case
\* never matches.
C6_ExactWholeTokenMatch ==
    rpc = "done" =>
        /\ \A i \in 1..Len(shift_cols) :
              (label = ShiftLabel(shift_cols[i])) =>
                  /\ shift_cols[i] \in DOMAIN row
                  /\ ~isna(row[shift_cols[i]])
                  /\ WholeWordIn(person, str(row[shift_cols[i]]))
        /\ label = OFF_LEAVE =>
              \E col \in {"Off", "Leave"} :
                  /\ col \in DOMAIN row
                  /\ ~isna(row[col])
                  /\ WholeWordIn(person, str(row[col]))
        /\ label \in {ShiftLabel(c) : c \in Range(shift_cols)}
                        \cup {OFF_LEAVE, NO_ASSIGNMENT}

C6_Witness ==
    /\ rpc = "done"
    /\ person = ST
    /\ shift_cols # <<>>
    /\ \A i \in 1..Len(shift_cols) :
          /\ shift_cols[i] \in DOMAIN row
          /\ ~isna(row[shift_cols[i]])
          /\ NearMissIn(person, str(row[shift_cols[i]]))
    /\ "Off" \in DOMAIN row /\ ~isna(row["Off"])
    /\ NearMissIn(person, str(row["Off"]))
    /\ label = NO_ASSIGNMENT

(***************************************************************************)
(* Property of build_shift_columns, checked under SpecCols                 *)
(***************************************************************************)
\* the rank of a shift column in the order 1st, 2nd, 3rd, General, LW/NI
Priority(c) ==
    CASE c = "1st" -> 1 [] c = "2nd" -> 2 [] c = "3rd" -> 3
      [] c = "General" -> 4 [] c = "LW/NI" -> 5 [] OTHER -> 0

\* C9: the shift-column list holds exactly the known shift columns present
\* in the table, each once, in the order 1st, 2nd, 3rd, General, LW/NI,
\* whatever the order of the columns in the spreadsheet.
C9_CanonicalColumnOrder ==
    cpc = "done" =>
        /\ Range(built) =
              {"1st", "2nd", "3rd", "General", "LW/NI"} \cap Range(sheet_columns)
        /\ \A i, j \in 1..Len(built) :
              i < j => Priority(built[i]) < Priority(built[j])

C9_Witness ==
    /\ cpc = "done"
    /\ Len(built) >= 3
    /\ \E i, j \in 1..Len(sheet_columns) :
          /\ i < j
          /\ Priority(sheet_columns[j]) > 0
          /\ Priority(sheet_columns[i]) > Priority(sheet_columns[j])
    /\ \E c \in Range(sheet_columns) : Priority(c) = 0

(***************************************************************************)
(* Properties of the page script, checked under SpecApp                    *)
(***************************************************************************)
\* the rows of the table whose date falls on a calendar day
RowsOfDay(df, dc, day) ==
    LET onday(r) == r[dc].day = day
    IN SelectSeq(df.rows, onday)

DateLookup(day, lab) ==
    LET dc == first_date_col(out.df.columns)
        rs == RowsOfDay(out.df, dc, day)
    IN /\ lab = NO_DATA <=> rs = <<>>
       /\ rs = <<>> => \A k \in 1..Len(out.calls) : out.calls[k][dc].day # day
       /\ rs # <<>> =>
             lab = get_assignment_for_person(rs[1], out.person, out.shift_cols)

\* C8: on the Today & Tomorrow page, for the selected date and for the day
\* after it, the label is "No data" exactly when the table has no row for
\* that calendar date, the resolver is then not invoked, and otherwise the
\* label is the resolver's result on the first row of that date.
C8_NoDataIffNoRowForDate ==
    (out.page = "today" /\ out.kind = "rendered") =>
        /\ DateLookup(out.result[1], out.result[2])
        /\ DateLookup(out.result[3], out.result[4])

\* C8 on tables whose dates all carry the time 00:00: there the date lookup
\* is as C8 states.
C8_MidnightRowsOnly ==
    (/\ out.page = "today"
     /\ out.kind = "rendered"
     /\ \A i \in 1..Len(out.df.rows) :
           out.df.rows[i][first_date_col(out.df.columns)].tod = 0) =>
        /\ DateLookup(out.result[1], out.result[2])
        /\ DateLookup(out.result[3], out.result[4])

\* C10: once a file has been loaded on the Upload Roster page, every later
\* rendering of Today & Tomorrow and of Weekly View works on the uploaded
\* table.
C10_LaterPagesUseUploadedRoster ==
    (~uploaded_ok.isnone /\ out.page \in {"today", "weekly"}) =>
        out.df = uploaded_ok

====
